---------------------------- MODULE Spec2Model ----------------------------
(***************************************************************************)
(* A model of the constexpr multilayer perceptron library: the vec/mat     *)
(* algebra kernel (matrix.hpp), the activation and loss functions          *)
(* (neural.hpp), layers, network composition, forward propagation and the  *)
(* backpropagation training loop (mlp.hpp).                                *)
(*                                                                         *)
(* Conventions.                                                            *)
(*  - vec<T, M> is a sequence of length M, mat<T, M, N> a sequence of M    *)
(*    rows of length N.  Sequences are indexed from 1, so element i of the *)
(*    source is element i + 1 here; the loop counters of fit (epoch, n)    *)
(*    keep the values they have in the source.                             *)
(*  - The element type double is modelled by the integers, on which +, -   *)
(*    and * are exact.  The activations Linear and ReLU and the loss MSE   *)
(*    are closed under the integers and are modelled; Sigmoid, Tanh and    *)
(*    LogLoss need exp, ln and a division and are left out.                *)
(*  - A division by a double (the loss reductions) yields a fraction       *)
(*    <<numerator, denominator>>, compared by cross-multiplication.        *)
(*  - std::size_t is an unsigned integer of EpochBits bits.                *)
(***************************************************************************)
EXTENDS Integers, Sequences, FiniteSets, TLC

(***************************************************************************)
(* Bounds of the model.                                                    *)
(***************************************************************************)
MaxN == 2
MaxSteps == 4
EpochBits == 2
MaxLayers == 3
MaxM == 2
MaxAbs == 20

SizeMax == 2 ^ EpochBits - 1

(***************************************************************************)
(* matrix.hpp: vec functional.  A callable F is a function value: of one   *)
(* argument, or of a pair <<a, b>> for a binary callable.                  *)
(***************************************************************************)
fmap(f, a) == [i \in 1..Len(a) |-> f[a[i]]]

zip(f, a, b) == [i \in 1..Len(a) |-> f[<<a[i], b[i]>>]]

\* r = f(r, x[i]) for i = 1 .. M-1, after r = f(z, x[0])
RECURSIVE foldFrom(_, _, _, _)
foldFrom(f, r, x, i) ==
  IF i > Len(x) THEN r ELSE foldFrom(f, f[<<r, x[i]>>], x, i + 1)

fold(f, z, x) ==
  IF Len(x) = 0 THEN z ELSE foldFrom(f, f[<<z, x[1]>>], x, 2)

(***************************************************************************)
(* matrix.hpp: vec operations                                              *)
(***************************************************************************)
Pairs == Int \X Int

plus == [p \in Pairs |-> p[1] + p[2]]
minus == [p \in Pairs |-> p[1] - p[2]]
multiplies == [p \in Pairs |-> p[1] * p[2]]

VecAdd(a, b) == zip(plus, a, b)
VecSub(a, b) == zip(minus, a, b)
VecScale(a, b) == fmap([a_m \in Int |-> a_m * b], a)

(***************************************************************************)
(* matrix.hpp: mat functional and mat operations                           *)
(***************************************************************************)
fmapMat(f, a) ==
  [i \in 1..Len(a) |-> [j \in 1..Len(a[i]) |-> f[a[i][j]]]]

zipMat(f, a, b) ==
  [i \in 1..Len(a) |-> [j \in 1..Len(a[i]) |-> f[<<a[i][j], b[i][j]>>]]]

MatAdd(a, b) == zipMat(plus, a, b)
MatSub(a, b) == zipMat(minus, a, b)
MatScale(a, b) == fmapMat([a_m \in Int |-> a_m * b], a)

\* c[i] accumulated over j = 0 .. N-1 in increasing order, from c[i] = 0
RECURSIVE DotFrom(_, _, _, _)
DotFrom(row, b, j, c) ==
  IF j > Len(row) THEN c ELSE DotFrom(row, b, j + 1, c + row[j] * b[j])

MatMulVec(a, b) == [i \in 1..Len(a) |-> DotFrom(a[i], b, 1, 0)]

\* vec<A, M> * mat<B, 1, N>: the outer product
VecMulRow(a, b) ==
  [i \in 1..Len(a) |-> [j \in 1..Len(b[1]) |-> a[i] * b[1][j]]]

\* vec<A, M> + mat<B, M, 1> and vec<A, M> - mat<B, M, 1>
VecAddCol(a, b) == [i \in 1..Len(a) |-> a[i] + b[i][1]]
VecSubCol(a, b) == [i \in 1..Len(a) |-> a[i] - b[i][1]]

\* mat<A, M, 1> + vec<B, M> and mat<A, M, 1> - vec<B, M>
ColAddVec(a, b) == VecAddCol(b, a)
ColSubVec(a, b) == VecSubCol(b, a)

transposeVec(v) == <<v>>

\* the column count N of mat<T, M, N> is a template parameter
transpose(a, N) == [j \in 1..N |-> [i \in 1..Len(a) |-> a[i][j]]]

(***************************************************************************)
(* math.hpp: integer power by squaring, for n >= 0                         *)
(***************************************************************************)
RECURSIVE powLoop(_, _, _)
powLoop(x, n, x_n) ==
  IF n > 0
    THEN powLoop(x * x, n \div 2, IF n % 2 = 1 THEN x_n * x ELSE x_n)
    ELSE x_n

pow(x, n) == IF n = 0 THEN 1 ELSE powLoop(x, n, 1)

(***************************************************************************)
(* neural.hpp: activations, losses and their derivatives                   *)
(***************************************************************************)
Acts == {"Linear", "ReLU"}
Losses == {"MSE"}

max(a, b) == IF a < b THEN b ELSE a

activation1(A, x) == IF A = "Linear" THEN x ELSE max(0, x)

activation(f, x) == fmap([x_i \in Int |-> activation1(f, x_i)], x)

derivative1(A, x) == IF A = "Linear" THEN 1 ELSE IF x < 0 THEN 0 ELSE 1

derivative(f, x) == fmap([x_i \in Int |-> derivative1(f, x_i)], x)

loss1(L, y_real, y_pred) == pow(y_real - y_pred, 2)

\* a double divided by a double: the fraction <<numerator, denominator>>
Frac(num, den) == <<num, den>>
FracEq(p, q) == p[1] * q[2] = q[1] * p[2]

lossVec(f, y_real, y_pred) ==
  LET l == [p \in Pairs |-> loss1(f, p[1], p[2])]
  IN  Frac(fold(plus, 0, zip(l, y_real, y_pred)), Len(y_real))

\* std::plus on two doubles that are fractions
FracPlus == [p \in Pairs \X Pairs |->
              Frac(p[1][1] * p[2][2] + p[2][1] * p[1][2], p[1][2] * p[2][2])]

\* N is the template parameter N of mat<double, M, N>: the column count
lossMat(f, y_real, y_pred, N) ==
  LET l == [p \in Seq(Int) \X Seq(Int) |-> lossVec(f, p[1], p[2])]
      s == fold(FracPlus, Frac(0, 1), zip(l, y_real, y_pred))
  IN  Frac(s[1], s[2] * N)

derivativeLoss1(L, y_real, y_pred) == (0 - 2) * (y_real - y_pred)

derivativeLoss(f, y_real, y_pred) ==
  zip([p \in Pairs |-> derivativeLoss1(f, p[1], p[2])], y_real, y_pred)

(***************************************************************************)
(* mlp.hpp: layers and forward propagation                                 *)
(***************************************************************************)
\* layer<I, O>: I and O are template parameters, kept as fields
Layer(I, O, a, w, b) == [I |-> I, O |-> O, a |-> a, w |-> w, b |-> b]

VecThroughLayer(x, l) == activation(l.a, VecAdd(MatMulVec(l.w, x), l.b))

\* the rows of the batch taken last to first
MatThroughLayerReversed(x, l) ==
  [i \in 1..Len(x) |-> VecThroughLayer(x[Len(x) + 1 - i], l)]

MatThroughLayer(x, l) == fmap([x_i \in Seq(Int) |-> VecThroughLayer(x_i, l)], x)

\* (x >> ... >> ls): a left fold of >> over the layers
RECURSIVE VecThroughFrom(_, _, _)
VecThroughFrom(x, net, k) ==
  IF k > Len(net) THEN x
  ELSE VecThroughFrom(VecThroughLayer(x, net[k]), net, k + 1)

VecThroughMlp(x, net) == VecThroughFrom(x, net, 1)

RECURSIVE MatThroughFrom(_, _, _)
MatThroughFrom(x, net, k) ==
  IF k > Len(net) THEN x
  ELSE MatThroughFrom(MatThroughLayer(x, net[k]), net, k + 1)

MatThroughMlp(x, net) == MatThroughFrom(x, net, 1)


(***************************************************************************)
(* mlp.hpp: backpropagate<L>, statement by statement.  net and L are in    *)
(* scope of every statement of the function, so each operator takes them.  *)
(***************************************************************************)
\* const auto z = l.w * x + l.b;
BpZ(l, x) == VecAdd(MatMulVec(l.w, x), l.b)

\* const auto a = activation(l.a, z);
BpA(l, z) == activation(l.a, z)

\* auto delta = derivative(l.a, z);
BpD(l, z) == derivative(l.a, z)

\* the textbook shortcut a - y in place of f'(z) times loss'(y, a)
BpDeltaLastShortcut(par_, d, y, a) == VecSub(a, y)

\* delta = zip(std::multiplies{}, delta, derivative(par.loss, y, a));
BpDeltaLast(par_, d, y, a) ==
  zip(multiplies, d, derivativeLoss(par_.loss, y, a))

\* const auto w_next = transpose(std::get<L + 1>(net).w);
BpWNext(net_, L) == transpose(net_[L + 1].w, net_[L + 1].I)

\* W_{L+1} read when the product is formed, after backpropagate<L + 1> returned
BpBackWLate(net_, L, f) == transpose(net_[L + 1].w, net_[L + 1].I)

\* the left operand of w_next * backpropagate<L + 1>(...): the local w_next
BpBackW(net_, L, f) == f.w_next

\* the back-propagated error not multiplied by the layer's own derivative
BpDeltaInnerNoDerivative(d, w, r) == MatMulVec(w, r)

\* delta = zip(std::multiplies{}, delta, w_next * backpropagate<L + 1>(...));
BpDeltaInner(d, w, r) == zip(multiplies, d, MatMulVec(w, r))

\* l.w = l.w - delta * transpose(x) * par.rate;
BpNewW(l, delta, x, par_) ==
  MatSub(l.w, MatScale(VecMulRow(delta, transposeVec(x)), par_.rate))

\* l.b = l.b - delta * par.rate;
BpNewB(l, delta, par_) == VecSub(l.b, VecScale(delta, par_.rate))

(***************************************************************************)
(* mlp.hpp: fit, its loop tests                                            *)
(***************************************************************************)
\* the test of a loop that counts its epochs from 0
EpochTestFromZero(e, epochs) == e - 1 <= epochs

\* epoch <= par.epochs
EpochTest(e, epochs) == e <= epochs

\* ++epoch on a std::size_t
EpochInc(e) == (e + 1) % (2 ^ EpochBits)

\* n < N
SampleTest(k, N) == k < N

(***************************************************************************)
(* The inputs: networks, fit parameters and sample batches                 *)
(***************************************************************************)
WVals == {0 - 1, 2}
BVals == {1}
XVals == {1, 2}
YVals == {0, 1}
RateVals == {2}
EpochVals == {0, 1, 2, SizeMax}

\* the layer widths <<Inputs of layer 0, Outputs of layer 0, ...>>
Shapes == {<<1, 1>>, <<2, 2>>, <<1, 2, 1>>, <<1, 2, 2>>, <<1, 1, 1, 1>>}

Vecs(M, S) == [1..M -> S]
Mats(M, N, S) == [1..M -> [1..N -> S]]

\* rows whose neighbouring entries differ
Rows(M, S) == {v \in Vecs(M, S) : \A j \in 1..(M - 1) : v[j] # v[j + 1]}

\* the layers of I inputs and O outputs whose weight rows have differing
\* neighbours
LayerSet(I, O) ==
  {Layer(I, O, a, w, b) :
     a \in Acts, w \in [1..O -> Rows(I, WVals)], b \in Vecs(O, BVals)}

RECURSIVE NetsFrom(_, _)
NetsFrom(dims, k) ==
  IF k >= Len(dims) THEN {<<>>}
  ELSE {<<l>> \o rest : l \in LayerSet(dims[k], dims[k + 1]),
                        rest \in NetsFrom(dims, k + 1)}

Nets(dims) == NetsFrom(dims, 1)

Pars == [epochs : EpochVals, rate : RateVals, loss : Losses]

Samples(I, O) == [x : Rows(I, XVals), y : Rows(O, YVals)]

Batches(I, O) == UNION {[1..N -> Samples(I, O)] : N \in 0..MaxN}

(***************************************************************************)
(* State                                                                   *)
(***************************************************************************)
VARIABLES
  net,     \* fit's argument net
  par,     \* fit's argument par
  xs,      \* fit's argument x: one row per sample
  ys,      \* fit's argument y: one row per sample
  fnet,    \* fit's local fnet, trained in place
  epoch,   \* fit's loop counter epoch
  n,       \* fit's loop counter n
  pc,      \* where fit stands: init, epoch, sample, bp, done
  fr,      \* the activation records of backpropagate<0>, <1>, ... of this step
  top,     \* the innermost active record of fr; 0 outside backpropagate
  ret,     \* the value the last backpropagate<L> returned
  step0,   \* fnet as it stood when this step's backpropagate<0> was called
  steps,   \* the number of backpropagate<0> calls made so far
  log,     \* the calls made so far: epoch, n, the rows passed, and the
           \* network as the call found it (from) and left it (to)
  call,    \* the last operation of the library applied, with its operands
  chain    \* the network built by operator+, or the failure to build one

vars == <<net, par, xs, ys, fnet, epoch, n, pc, fr, top, ret, step0, steps,
          log, call, chain>>

fitVars == <<net, par, xs, ys, fnet, epoch, n, pc, fr, top, ret, step0,
             steps, log>>

NoCall == [op |-> "none"]
NoChain == [status |-> "none", layers |-> <<>>]

N_ == Len(xs)
Depth == Len(fnet)

Abs(v) == IF v < 0 THEN 0 - v ELSE v

\* every weight and bias of the network is at most MaxAbs in magnitude
Small(net_) ==
  \A L \in 1..Len(net_) : \A i \in 1..net_[L].O :
    /\ Abs(net_[L].b[i]) <= MaxAbs
    /\ \A j \in 1..net_[L].I : Abs(net_[L].w[i][j]) <= MaxAbs

\* an activation record of backpropagate<L> on entry
Frame(L, x) ==
  [L |-> L, x |-> x, z |-> <<>>, a |-> <<>>, d |-> <<>>, w_next |-> <<>>,
   used |-> <<>>, delta |-> <<>>, wOld |-> <<>>, bOld |-> <<>>, pc |-> "enter"]

(***************************************************************************)
(* fit                                                                     *)
(***************************************************************************)
InitFit ==
  /\ \E dims \in Shapes :
       /\ net \in Nets(dims)
       /\ \E batch \in Batches(dims[1], dims[Len(dims)]) :
            /\ xs = [k \in 1..Len(batch) |-> batch[k].x]
            /\ ys = [k \in 1..Len(batch) |-> batch[k].y]
  /\ par \in Pars
  /\ fnet = <<>>
  /\ epoch = 0
  /\ n = 0
  /\ pc = "init"
  /\ fr = <<>>
  /\ top = 0
  /\ ret = <<>>
  /\ step0 = <<>>
  /\ steps = 0
  /\ log = <<>>
  /\ call = NoCall
  /\ chain = NoChain

\* auto fnet = net; std::size_t epoch = 1
FitCopy ==
  /\ pc = "init"
  /\ fnet' = net
  /\ epoch' = 1
  /\ pc' = "epoch"
  /\ UNCHANGED <<net, par, xs, ys, n, fr, top, ret, step0, steps, log, call, chain>>

\* epoch <= par.epochs holds: std::size_t n = 0
EpochEnter ==
  /\ pc = "epoch"
  /\ EpochTest(epoch, par.epochs)
  /\ n' = 0
  /\ pc' = "sample"
  /\ UNCHANGED <<net, par, xs, ys, fnet, epoch, fr, top, ret, step0, steps, log,
                 call, chain>>

\* epoch <= par.epochs fails: return fnet
FitReturn ==
  /\ pc = "epoch"
  /\ ~EpochTest(epoch, par.epochs)
  /\ pc' = "done"
  /\ UNCHANGED <<net, par, xs, ys, fnet, epoch, n, fr, top, ret, step0, steps,
                 log, call, chain>>

\* n < N holds: backpropagate(fnet, par, x[n], y[n]) is called
SampleCall ==
  /\ pc = "sample"
  /\ SampleTest(n, N_)
  /\ steps < MaxSteps
  /\ Small(fnet)
  /\ fr' = <<Frame(1, xs[n + 1])>>
  /\ top' = 1
  /\ step0' = fnet
  /\ steps' = steps + 1
  /\ log' = Append(log, [epoch |-> epoch, n |-> n, x |-> xs[n + 1], y |-> ys[n + 1],
                          from |-> fnet, to |-> <<>>])
  /\ pc' = "bp"
  /\ UNCHANGED <<net, par, xs, ys, fnet, epoch, n, ret, call, chain>>

\* n < N fails: ++epoch
EpochNext ==
  /\ pc = "sample"
  /\ ~SampleTest(n, N_)
  /\ epoch' = EpochInc(epoch)
  /\ pc' = "epoch"
  /\ UNCHANGED <<net, par, xs, ys, fnet, n, fr, top, ret, step0, steps, log, call,
                 chain>>

\* backpropagate<L> of the last layer, up to its delta
BpForwardLast ==
  /\ pc = "bp" /\ top > 0 /\ top = Depth
  /\ fr[top].pc = "enter"
  /\ LET l == fnet[top]
         z == BpZ(l, fr[top].x)
         a == BpA(l, z)
         d == BpD(l, z)
     IN  fr' = [fr EXCEPT ![top] = [@ EXCEPT !.z = z, !.a = a, !.d = d,
                    !.delta = BpDeltaLast(par, d, ys[n + 1], a), !.pc = "update"]]
  /\ UNCHANGED <<net, par, xs, ys, fnet, epoch, n, pc, top, ret, step0, steps,
                 log, call, chain>>

\* backpropagate<L> of an earlier layer, up to the call of backpropagate<L + 1>
BpForwardInner ==
  /\ pc = "bp" /\ top > 0 /\ top < Depth
  /\ fr[top].pc = "enter"
  /\ LET l == fnet[top]
         z == BpZ(l, fr[top].x)
         a == BpA(l, z)
         d == BpD(l, z)
     IN  fr' = Append([fr EXCEPT ![top] = [@ EXCEPT !.z = z, !.a = a, !.d = d,
                         !.w_next = BpWNext(fnet, top), !.pc = "combine"]],
                      Frame(top + 1, a))
  /\ top' = top + 1
  /\ UNCHANGED <<net, par, xs, ys, fnet, epoch, n, pc, ret, step0, steps, log,
                 call, chain>>

\* backpropagate<L + 1> has returned: the delta of layer L
BpCombine ==
  /\ pc = "bp" /\ top > 0
  /\ fr[top].pc = "combine"
  /\ LET w == BpBackW(fnet, top, fr[top])
     IN  fr' = [fr EXCEPT ![top] = [@ EXCEPT !.used = w,
                    !.delta = BpDeltaInner(fr[top].d, w, ret), !.pc = "update"]]
  /\ UNCHANGED <<net, par, xs, ys, fnet, epoch, n, pc, top, ret, step0, steps,
                 log, call, chain>>

\* the update of layer L, and the return of its delta
BpUpdate ==
  /\ pc = "bp" /\ top > 0
  /\ fr[top].pc = "update"
  /\ LET l == fnet[top]
         f == fr[top]
         w == BpNewW(l, f.delta, f.x, par)
         b == BpNewB([l EXCEPT !.w = w], f.delta, par)
     IN  /\ fnet' = [fnet EXCEPT ![top] = [@ EXCEPT !.w = w, !.b = b]]
         /\ fr' = [fr EXCEPT ![top] = [@ EXCEPT !.wOld = l.w, !.bOld = l.b,
                      !.pc = "returned"]]
         /\ ret' = f.delta
  /\ top' = top - 1
  /\ UNCHANGED <<net, par, xs, ys, epoch, n, pc, step0, steps, log, call, chain>>

\* backpropagate<0> has returned to fit: ++n
SampleNext ==
  /\ pc = "bp" /\ top = 0
  /\ n' = n + 1
  /\ log' = [log EXCEPT ![Len(log)].to = fnet]
  /\ pc' = "sample"
  /\ UNCHANGED <<net, par, xs, ys, fnet, epoch, fr, top, ret, step0, steps, call,
                 chain>>

Next ==
  \/ FitCopy
  \/ EpochEnter
  \/ FitReturn
  \/ SampleCall
  \/ EpochNext
  \/ BpForwardLast
  \/ BpForwardInner
  \/ BpCombine
  \/ BpUpdate
  \/ SampleNext

Spec == InitFit /\ [][Next]_vars

(***************************************************************************)
(* Reference arithmetic for the claims, written element by element and     *)
(* independently of the operators above.                                   *)
(***************************************************************************)
RECURSIVE Sigma(_, _)
Sigma(F, k) == IF k = 0 THEN 0 ELSE Sigma(F, k - 1) + F[k]

RefAct(A, v) == CASE A = "Linear" -> v [] A = "ReLU" -> IF v > 0 THEN v ELSE 0
RefActD(A, v) == CASE A = "Linear" -> 1 [] A = "ReLU" -> IF v < 0 THEN 0 ELSE 1
RefLossD(f, y, p) == CASE f = "MSE" -> 2 * (p - y)

RefZ(w, b, x) ==
  [i \in 1..Len(w) |-> Sigma([j \in 1..Len(x) |-> w[i][j] * x[j]], Len(x)) + b[i]]

\* the rows passed to the backpropagate<0> call of the current step
StepX == log[Len(log)].x
StepY == log[Len(log)].y

Combined(L) == fr[L].pc \in {"update", "returned"}
Returned(L) == fr[L].pc = "returned"
StepOver == pc = "bp" /\ top = 0

(***************************************************************************)
(* C1.  fit calls backpropagate in this order: for each epoch              *)
(* 1..par.epochs, samples n = 0 .. N-1 ascending, each once per epoch,     *)
(* with row x[n] paired with row y[n]; nothing is skipped, repeated or     *)
(* reordered (the k-th call is epoch (k-1) div N + 1, sample (k-1) mod N,  *)
(* and fit returns after par.epochs * N calls), and every call starts from *)
(* the network the call before it left (the first from fit's argument).    *)
(***************************************************************************)
C1_FitOrder ==
  /\ \A k \in 1..Len(log) :
       /\ log[k].epoch = ((k - 1) \div N_) + 1
       /\ log[k].epoch <= par.epochs
       /\ log[k].n = (k - 1) % N_
       /\ log[k].x = xs[log[k].n + 1]
       /\ log[k].y = ys[log[k].n + 1]
       /\ log[k].from = IF k = 1 THEN net ELSE log[k - 1].to
  /\ pc = "done" => Len(log) = par.epochs * N_

(***************************************************************************)
(* C2.  In one step, for every layer L that has returned: its delta is     *)
(* f'(z_L) times loss'(y, a_L) for the last layer and f'(z_L) times        *)
(* (transpose(W_{L+1}) delta_{L+1}) for an earlier one, with               *)
(* z_L = W_L x_L + b_L and x_L the network input (layer 0) or the          *)
(* activation of layer L-1; and W_L[i][j] = old W_L[i][j] - rate *         *)
(* delta_L[i] * x_L[j], b_L[i] = old b_L[i] - rate * delta_L[i].           *)
(***************************************************************************)
C2_X(L) == IF L = 1 THEN StepX ELSE fr[L - 1].a

C2_Z(L) == RefZ(fr[L].wOld, fr[L].bOld, C2_X(L))

C2_Delta(L) ==
  LET A == fnet[L].a
      z == C2_Z(L)
  IN  IF L = Depth
        THEN [i \in 1..fnet[L].O |->
                RefActD(A, z[i]) * RefLossD(par.loss, StepY[i], RefAct(A, z[i]))]
        ELSE [i \in 1..fnet[L].O |->
                RefActD(A, z[i]) *
                  Sigma([k \in 1..fnet[L + 1].O |->
                           fr[L + 1].wOld[k][i] * fr[L + 1].delta[k]],
                        fnet[L + 1].O)]

C2_UpdateRule ==
  \A L \in 1..Len(fr) :
    Returned(L) =>
      /\ fr[L].x = C2_X(L)
      /\ fr[L].delta = C2_Delta(L)
      /\ \A i \in 1..fnet[L].O :
           /\ fnet[L].b[i] = fr[L].bOld[i] - par.rate * fr[L].delta[i]
           /\ \A j \in 1..fnet[L].I :
                fnet[L].w[i][j] =
                  fr[L].wOld[i][j] - par.rate * fr[L].delta[i] * C2_X(L)[j]

\* a finished step of a three-layer network and of a network with a layer
\* two wide in which every layer's weights changed
C2_Witness ==
  /\ StepOver
  /\ Depth = 3 \/ (Depth = 2 /\ fnet[1].O = 2)
  /\ \A L \in 1..Depth : fnet[L].w # fr[L].wOld /\ fnet[L].b # fr[L].bOld

(***************************************************************************)
(* C3.  The matrix that layer L multiplies by delta_{L+1} is the transpose *)
(* of W_{L+1} as it stood before layer L+1's update of this step: when     *)
(* layer L+1 is about to write W_{L+1}, layer L already holds its copy,    *)
(* and the matrix layer L then uses is the transpose of the old W_{L+1}.   *)
(***************************************************************************)
C3_ReadBeforeWrite ==
  \A L \in 1..Len(fr) :
    /\ (L > 1 /\ fr[L].pc \in {"enter", "combine", "update"}) =>
         /\ fr[L - 1].pc = "combine"
         /\ \A i \in 1..fnet[L].I : \A k \in 1..fnet[L].O :
              fr[L - 1].w_next[i][k] = fnet[L].w[k][i]
    /\ (L < Depth /\ Combined(L)) =>
         /\ Returned(L + 1)
         /\ \A i \in 1..fnet[L].O : \A k \in 1..fnet[L + 1].O :
              /\ fr[L].used[i][k] = fr[L + 1].wOld[k][i]
              /\ fr[L].used[i][k] = step0[L + 1].w[k][i]

\* the first layer of a three-layer network has formed its delta, and both
\* later layers' weights are no longer what they were
C3_Witness ==
  /\ pc = "bp" /\ Depth = 3 /\ Len(fr) = 3
  /\ Combined(1)
  /\ fnet[2].w # step0[2].w
  /\ fnet[3].w # step0[3].w

(***************************************************************************)
(* C10.  A step equals the simultaneous update: every layer's z, a and     *)
(* delta are the ones computed from the network as it stood at the start   *)
(* of the step, and the step's result is that network with all updates     *)
(* applied at once.                                                        *)
(***************************************************************************)
\* the input of layer L when x is fed through net0 (the output, for L past the
\* last layer)
RECURSIVE SimX(_, _, _)
SimX(net0, x, L) ==
  IF L = 1 THEN x
  ELSE LET z == RefZ(net0[L - 1].w, net0[L - 1].b, SimX(net0, x, L - 1))
       IN  [i \in 1..Len(z) |-> RefAct(net0[L - 1].a, z[i])]

\* the input x, pre-activation z and activation a of layers L .. last
RECURSIVE SimForward(_, _, _)
SimForward(net0, x, L) ==
  IF L > Len(net0) THEN <<>>
  ELSE LET z == RefZ(net0[L].w, net0[L].b, x)
           a == [i \in 1..Len(z) |-> RefAct(net0[L].a, z[i])]
       IN  <<[x |-> x, z |-> z, a |-> a]>> \o SimForward(net0, a, L + 1)

\* the deltas of layers L .. last, all from the weights of net0
RECURSIVE SimDeltas(_, _, _, _, _)
SimDeltas(net0, f, fwd, y, L) ==
  LET z == fwd[L].z
      A == net0[L].a
  IN  IF L = Len(net0)
        THEN <<[i \in 1..Len(z) |->
                  RefActD(A, z[i]) * RefLossD(f, y[i], RefAct(A, z[i]))]>>
        ELSE LET rest == SimDeltas(net0, f, fwd, y, L + 1)
                 dn == rest[1]
             IN  <<[i \in 1..Len(z) |->
                      RefActD(A, z[i]) *
                        Sigma([k \in 1..Len(dn) |-> net0[L + 1].w[k][i] * dn[k]],
                              Len(dn))]>> \o rest

\* layer L of net0 after its update by delta d on input xL
SimLayer(l, par_, d, xL) ==
  [l EXCEPT
     !.w = [i \in 1..l.O |-> [j \in 1..l.I |-> l.w[i][j] - par_.rate * d[i] * xL[j]]],
     !.b = [i \in 1..l.O |-> l.b[i] - par_.rate * d[i]]]

C10_SimultaneousUpdate ==
  fr # <<>> =>
    LET fwd == SimForward(step0, StepX, 1)
        dl == SimDeltas(step0, par.loss, fwd, StepY, 1)
    IN  /\ \A L \in 1..Len(fr) :
             /\ fr[L].x = fwd[L].x
             /\ fr[L].pc # "enter" => fr[L].z = fwd[L].z /\ fr[L].a = fwd[L].a
             /\ Combined(L) => fr[L].delta = dl[L]
        /\ \A L \in 1..Depth :
             fnet[L] = IF L <= Len(fr) /\ Returned(L)
                         THEN SimLayer(step0[L], par, dl[L], fwd[L].x)
                         ELSE step0[L]
        /\ StepOver =>
             fnet = [L \in 1..Depth |-> SimLayer(step0[L], par, dl[L], fwd[L].x)]

\* a finished step of a three-layer network that changed every layer
C10_Witness ==
  /\ StepOver /\ Depth = 3
  /\ \A L \in 1..Depth : fnet[L] # step0[L]
  /\ steps >= 2

(***************************************************************************)
(* C6.  fit with par.epochs = 0 returns the network it was given, and      *)
(* makes no backpropagation step.                                          *)
(***************************************************************************)
C6_ZeroEpochs ==
  (pc = "done" /\ par.epochs = 0) => (fnet = net /\ steps = 0 /\ log = <<>>)

\* fit has returned from a call with no epochs and a batch of two samples
C6_Witness == pc = "done" /\ par.epochs = 0 /\ N_ = 2 /\ Len(net) = 3

(***************************************************************************)
(* C9.  fit terminates after exactly par.epochs * N steps for every        *)
(* par.epochs of the counter's type: the epoch counter never wraps around  *)
(* (it never falls), fit never makes more than par.epochs * N steps, and   *)
(* it returns with exactly that many made.                                 *)
(***************************************************************************)
C9_FitTerminates ==
  /\ pc # "init" => epoch >= 1
  /\ steps <= par.epochs * N_
  /\ pc = "done" => steps = par.epochs * N_

(***************************************************************************)
(* The algebra kernel and the loss functions, applied to operands drawn    *)
(* from small sets.  call holds the operation, its operands and its result.*)
(***************************************************************************)
AVals == {0, 1, 2}
LVals == {0, 1}

\* the variables of fit, unused while the library's functions are applied
FitIdle ==
  /\ net = <<>>
  /\ par = [epochs |-> 0, rate |-> 1, loss |-> "MSE"]
  /\ xs = <<>>
  /\ ys = <<>>
  /\ fnet = <<>>
  /\ epoch = 0
  /\ n = 0
  /\ pc = "idle"
  /\ fr = <<>>
  /\ top = 0
  /\ ret = <<>>
  /\ step0 = <<>>
  /\ steps = 0
  /\ log = <<>>

\* an operation about to be applied to its operands
Pending(op, f, a, b) == [op |-> op, f |-> f, a |-> a, b |-> b, r |-> <<>>, done |-> FALSE]

InitAlgebra ==
  /\ FitIdle
  /\ chain = NoChain
  /\ \E M \in 1..MaxM :
       \/ \E a \in Mats(M, 1, AVals) : \E b \in Vecs(M, AVals) :
            call = Pending("mat-vec", "", a, b)
       \/ \E a \in Vecs(M, AVals) : \E b \in Mats(M, 1, AVals) :
            call = Pending("vec-mat", "", a, b)
       \/ \E a \in Vecs(M, AVals) : \E b \in Vecs(M, AVals) :
            call = Pending("vec-vec", "", a, b)
       \/ \E f \in Losses : \E a \in Vecs(M, LVals) : \E b \in Vecs(M, AVals) :
            call = Pending("lossVec", f, a, b)
       \/ \E f \in Losses : \E N \in 1..MaxM :
            \E a \in Mats(M, N, LVals) : \E b \in Mats(M, N, AVals) :
              call = Pending("lossMat", f, a, b)

Returns(r) == call' = [call EXCEPT !.r = r, !.done = TRUE]

\* a - b for a of mat<A, M, 1> and b of vec<B, M>
ApplyColSubVec ==
  /\ call.op = "mat-vec" /\ ~call.done
  /\ Returns(ColSubVec(call.a, call.b))
  /\ UNCHANGED <<fitVars, chain>>

\* a - b for a of vec<A, M> and b of mat<B, M, 1>
ApplyVecSubCol ==
  /\ call.op = "vec-mat" /\ ~call.done
  /\ Returns(VecSubCol(call.a, call.b))
  /\ UNCHANGED <<fitVars, chain>>

\* a - b for a and b of vec<A, M>
ApplyVecSub ==
  /\ call.op = "vec-vec" /\ ~call.done
  /\ Returns(VecSub(call.a, call.b))
  /\ UNCHANGED <<fitVars, chain>>

\* loss(f, y_real, y_pred) of two vectors
ApplyLossVec ==
  /\ call.op = "lossVec" /\ ~call.done
  /\ Returns(lossVec(call.f, call.a, call.b))
  /\ UNCHANGED <<fitVars, chain>>

\* loss(f, y_real, y_pred) of two matrices of N columns
ApplyLossMat ==
  /\ call.op = "lossMat" /\ ~call.done
  /\ Returns(lossMat(call.f, call.a, call.b, Len(call.a[1])))
  /\ UNCHANGED <<fitVars, chain>>

NextAlgebra ==
  \/ ApplyColSubVec
  \/ ApplyVecSubCol
  \/ ApplyVecSub
  \/ ApplyLossVec
  \/ ApplyLossMat

SpecAlgebra == InitAlgebra /\ [][NextAlgebra]_vars

(***************************************************************************)
(* C7.  For an Mx1 matrix a and a length-M vector b, a - b is the vector   *)
(* with element i equal to a[i][0] - b[i], the same as subtracting b from  *)
(* the vector of a's column; and b - a has element i b[i] - a[i][0].       *)
(***************************************************************************)
C7_MixedSubtract ==
  /\ (call.op = "mat-vec" /\ call.done) =>
       /\ \A i \in 1..Len(call.a) : call.r[i] = call.a[i][1] - call.b[i]
       /\ call.r = VecSub([i \in 1..Len(call.a) |-> call.a[i][1]], call.b)
  /\ (call.op = "vec-mat" /\ call.done) =>
       \A i \in 1..Len(call.a) : call.r[i] = call.a[i] - call.b[i][1]

(***************************************************************************)
(* C8.  The loss of two M x N matrices is the sum of the M per-row losses  *)
(* divided by the row count M, each per-row loss being the sum of the N    *)
(* per-element losses divided by N.                                        *)
(***************************************************************************)
C8_RowLossSum(y_real, y_pred, i) ==
  Sigma([j \in 1..Len(y_real[i]) |->
           (y_real[i][j] - y_pred[i][j]) * (y_real[i][j] - y_pred[i][j])],
        Len(y_real[i]))

C8_BatchLossIsRowMean ==
  /\ (call.op = "lossVec" /\ call.done) =>
       FracEq(call.r, Frac(C8_RowLossSum(<<call.a>>, <<call.b>>, 1), Len(call.a)))
  /\ (call.op = "lossMat" /\ call.done) =>
       LET M == Len(call.a)
           N == Len(call.a[1])
           total == Sigma([i \in 1..M |-> C8_RowLossSum(call.a, call.b, i)], M)
       IN  FracEq(call.r, Frac(total, N * M))

(***************************************************************************)
(* Network composition and forward propagation.  chain holds the network   *)
(* built so far.                                                           *)
(***************************************************************************)
Widths == {1, 2}

\* the layers offered to operator+: those whose weight rows differ from
\* their neighbours too
LayerPool ==
  UNION {{l \in LayerSet(I, O) : \A i \in 1..(O - 1) : l.w[i] # l.w[i + 1]} :
         I \in Widths, O \in Widths}

Rejected == "rejected"

\* layer<I, N> + layer<N, O>: no candidate unless li's Outputs is lo's Inputs
LayerPlusLayer(li, lo) == IF li.O = lo.I THEN <<li, lo>> ELSE Rejected

\* the layer appended without the static_assert
MlpPlusLayerUnchecked(net_, l) == net_ \o <<l>>

\* mlp<Ls...> + layer<I, N>: static_assert that last layer + l is well-formed
MlpPlusLayer(net_, l) ==
  IF LayerPlusLayer(net_[Len(net_)], l) # Rejected
    THEN net_ \o <<l>>
    ELSE Rejected

XBatches(I) == UNION {[1..N -> Rows(I, XVals)] : N \in 0..MaxN}

InitNet ==
  /\ FitIdle
  /\ call = NoCall
  /\ chain = NoChain

\* li + lo
ComposeLayers ==
  /\ chain.status = "none" /\ call.op = "none"
  /\ \E li \in LayerPool : \E lo \in LayerPool :
       LET r == LayerPlusLayer(li, lo)
       IN  /\ call' = [op |-> "layer+layer", a |-> li, b |-> lo, r |-> r]
           /\ chain' = IF r = Rejected THEN chain
                       ELSE [status |-> "built", layers |-> r]
  /\ UNCHANGED fitVars

\* net + l
AppendLayer ==
  /\ chain.status = "built"
  /\ call.op \in {"layer+layer", "mlp+layer"} /\ call.r # Rejected
  /\ Len(chain.layers) < MaxLayers
  /\ \E l \in LayerPool :
       LET r == MlpPlusLayer(chain.layers, l)
       IN  /\ call' = [op |-> "mlp+layer", a |-> chain.layers, b |-> l, r |-> r]
           /\ chain' = IF r = Rejected THEN chain
                       ELSE [status |-> "built", layers |-> r]
  /\ UNCHANGED fitVars

\* x >> net for a batch x
ForwardBatch ==
  /\ chain.status = "built"
  /\ call.op \in {"layer+layer", "mlp+layer"} /\ call.r # Rejected
  /\ \E x \in XBatches(chain.layers[1].I) :
       call' = [op |-> "mat>>mlp", a |-> x, b |-> chain.layers,
                r |-> MatThroughMlp(x, chain.layers)]
  /\ UNCHANGED <<fitVars, chain>>

NextNet ==
  \/ ComposeLayers
  \/ AppendLayer
  \/ ForwardBatch

SpecNet == InitNet /\ [][NextNet]_vars

(***************************************************************************)
(* C4.  The forward result of a batch has one row per input row, in the    *)
(* same order, and row i is input row i fed alone through L0, L1, ..., Lk  *)
(* in that order, each layer computing activation(W * input + b): the      *)
(* batch forward and the single-sample forward agree on every row.         *)
(***************************************************************************)
C4_BatchForwardRowwise ==
  call.op = "mat>>mlp" =>
    /\ Len(call.r) = Len(call.a)
    /\ \A i \in 1..Len(call.a) :
         /\ call.r[i] = VecThroughMlp(call.a[i], call.b)
         /\ call.r[i] = SimX(call.b, call.a[i], Len(call.b) + 1)
         /\ Len(call.r[i]) = call.b[Len(call.b)].O

\* a batch of two different rows through three layers, the middle ones wide
C4_Witness ==
  /\ call.op = "mat>>mlp"
  /\ Len(call.b) = 3 /\ call.b[1].O = 2 /\ call.b[2].O = 2
  /\ Len(call.a) = 2 /\ call.a[1] # call.a[2]
  /\ call.r[1] # call.r[2]

(***************************************************************************)
(* C5.  In every network built by layer + layer and net + layer, each      *)
(* layer's Outputs is the next layer's Inputs; a composition whose next    *)
(* layer's Inputs differs from the last layer's Outputs is rejected and    *)
(* produces no network.                                                    *)
(***************************************************************************)
Adjacent(ls) == \A k \in 1..(Len(ls) - 1) : ls[k].O = ls[k + 1].I

C5_AdjacentWidths ==
  /\ Adjacent(chain.layers)
  /\ chain.status = "built" => Len(chain.layers) >= 2
  /\ call.op = "layer+layer" =>
       IF call.a.O = call.b.I
         THEN call.r = <<call.a, call.b>> /\ chain.layers = call.r
         ELSE call.r = Rejected
  /\ call.op = "mlp+layer" =>
       IF call.a[Len(call.a)].O = call.b.I
         THEN call.r = Append(call.a, call.b) /\ chain.layers = call.r
         ELSE call.r = Rejected /\ chain.layers = call.a

\* an append to a built network was rejected for its width, the network
\* being left as it was
C5_Witness ==
  /\ call.op = "mlp+layer" /\ call.r = Rejected
  /\ chain.status = "built" /\ Len(chain.layers) = 2
  /\ chain.layers[1].O = 2 /\ chain.layers[2].O = 1 /\ call.b.I = 2

=============================================================================
